---- MODULE Spec2Model ----
(***************************************************************************)
(* Model of src/main.py: the listing scraper.  scrape_all_properties walks *)
(* the category base URLs, requests each listing page, consumes the        *)
(* fetch_properties generator card by card (geocoding filter, detail-page  *)
(* price) and writes one CSV row per yielded record.                       *)
(*                                                                         *)
(* Text is a sequence of one-character strings, so that strip, split and   *)
(* substring search are computed and not assumed.  The network (listing    *)
(* pages, detail pages, the geocoder) is the environment: every call       *)
(* draws its outcome from a small set.                                     *)
(***************************************************************************)
EXTENDS Integers, Sequences, FiniteSets, TLC

VARIABLES
    base_urls,              \* argument of scrape_all_properties
    file,                   \* rows written to nairobi_property_listings.csv
    pc,                     \* position of the single thread of control
    cat,                    \* index of base_url in the for loop (line 159)
    page,                   \* page counter (lines 160, 177)
    url,                    \* url built at line 162
    soup,                   \* the controller's parsed response (line 166)
    properties_found,       \* flag of lines 168-171
    nProps,                 \* len(properties) inside fetch_properties (line 105)
    idx,                    \* position of the for loop of line 109
    tag,                    \* (property_type, purchase_type) of line 107
    prop,                   \* the card under extraction
    location_text,          \* line 117
    other_location_details, \* line 117
    detailed_price,         \* line 129
    geoCall,                \* history: the last geocoder call and its verdict
    priceCall,              \* history: the last extract_price call
    pageLog,                \* history: requests, failures and rows of the current cycle
    rowSrc,                 \* history: the geocoder's answer behind each written row
    lastWrite,              \* history: (category, page, card) of the last written row
    served                  \* environment: cards the site has served so far

vars == << base_urls, file, pc, cat, page, url, soup, properties_found, nProps,
           idx, tag, prop, location_text, other_location_details,
           detailed_price, geoCall, priceCall, pageLog, rowSrc, lastWrite,
           served >>

---------------------------------------------------------------------------
(* Bounds of the model *)

\* cards the site serves during one run, over all its pages: the site is
\* finite, so every category runs out of listings
MaxListings == 3

\* length of the location texts parse_location is applied to on its own
MaxLocLen == 4

---------------------------------------------------------------------------
(* Text constants of the program *)

MAX_DISTANCE == 30

NONE == <<"N","o","n","e">>
KENYA_SUFFIX == <<","," ","K","e","n","y","a">>
SITE_ORIGIN == <<"h","t","t","p","s",":","/","/","w","w","w",".","b","u","y","r","e","n","t","k","e","n","y","a",".","c","o","m">>
PAGE_PARAM == <<"?","p","a","g","e","=">>
KEY_HOUSES_SALE == <<"h","o","u","s","e","s","-","f","o","r","-","s","a","l","e">>
KEY_FLATS_SALE == <<"f","l","a","t","s","-","a","p","a","r","t","m","e","n","t","s","-","f","o","r","-","s","a","l","e">>
KEY_HOUSES_RENT == <<"h","o","u","s","e","s","-","f","o","r","-","r","e","n","t">>
KEY_FLATS_RENT == <<"f","l","a","t","s","-","a","p","a","r","t","m","e","n","t","s","-","f","o","r","-","r","e","n","t">>
KEY_BEDSITTERS_RENT == <<"b","e","d","s","i","t","t","e","r","s","-","f","o","r","-","r","e","n","t">>
House == <<"H","o","u","s","e">>
Apartment == <<"A","p","a","r","t","m","e","n","t">>
Bedsitter == <<"B","e","d","s","i","t","t","e","r">>
Sale == <<"S","a","l","e">>
Rent == <<"R","e","n","t">>
Unknown == <<"U","n","k","n","o","w","n">>

HEADER ==
    << <<"L","o","c","a","t","i","o","n">>,
       <<"O","t","h","e","r"," ","L","o","c","a","t","i","o","n"," ","D","e","t","a","i","l","s">>,
       <<"S","i","z","e">>,
       <<"B","e","d","r","o","o","m","s">>,
       <<"B","a","t","h","r","o","o","m","s">>,
       <<"P","r","i","c","e">>,
       <<"P","r","o","p","e","r","t","y"," ","T","y","p","e">>,
       <<"P","u","r","c","h","a","s","e"," ","T","y","p","e">> >>

\* the base_urls of the __main__ block
MAIN_BASE_URLS ==
    << SITE_ORIGIN \o <<"/">> \o KEY_HOUSES_SALE,
       SITE_ORIGIN \o <<"/">> \o KEY_FLATS_SALE,
       SITE_ORIGIN \o <<"/">> \o KEY_HOUSES_RENT,
       SITE_ORIGIN \o <<"/">> \o KEY_FLATS_RENT,
       SITE_ORIGIN \o <<"/">> \o KEY_BEDSITTERS_RENT >>

---------------------------------------------------------------------------
(* str operations *)

IsSpace(c) == c = " "

RECURSIVE LStrip(_)
LStrip(s) ==
    IF s # <<>> /\ IsSpace(Head(s)) THEN LStrip(Tail(s)) ELSE s

RECURSIVE RStrip(_)
RStrip(s) ==
    IF s # <<>> /\ IsSpace(s[Len(s)]) THEN RStrip(SubSeq(s, 1, Len(s) - 1)) ELSE s

\* str.strip()
Strip(s) == RStrip(LStrip(s))

\* sub in s
Contains(sub, s) ==
    \E i \in 0..(Len(s) - Len(sub)) : SubSeq(s, i + 1, i + Len(sub)) = sub

\* s.find(c) for a character known to occur in s
FirstIndex(c, s) == CHOOSE i \in 1..Len(s) : s[i] = c /\ \A j \in 1..(i - 1) : s[j] # c

DIGITS == <<"0","1","2","3","4","5","6","7","8","9">>

\* str(n) of a natural number, as the f-string of line 162 formats it
RECURSIVE IntToStr(_)
IntToStr(n) ==
    IF n < 10 THEN << DIGITS[n + 1] >>
    ELSE IntToStr(n \div 10) \o << DIGITS[(n % 10) + 1] >>

---------------------------------------------------------------------------
(* Markup nodes: the result of soup.find / prop.find *)

Node(t) == [found |-> TRUE, text |-> t]
NoNode == [found |-> FALSE, text |-> <<>>]

\* an <a class="no-underline"> element: absent, without href, or with one
Anchor(h) == [found |-> TRUE, hasHref |-> TRUE, href |-> h]
AnchorNoHref == [found |-> TRUE, hasHref |-> FALSE, href |-> <<>>]
NoAnchor == [found |-> FALSE, hasHref |-> FALSE, href |-> <<>>]

NoCard == [location |-> NoNode, size |-> NoNode, bedrooms |-> NoNode,
           bathrooms |-> NoNode, price_tag |-> NoAnchor]

\* the cards a listing page may carry
Cards ==
    { [location |-> Node(<<" ","K","a","r","e","n",","," ","N","a","i","r","o","b","i"," ">>),
       size |-> Node(<<"4","5","0"," ","m","2">>),
       bedrooms |-> Node(<<"4">>),
       bathrooms |-> Node(<<"3">>),
       price_tag |-> Anchor(<<"/","l","i","s","t","i","n","g","s","/","1">>)],
      [location |-> Node(<<" ","K","a","r","e","n",","," ","N","a","i","r","o","b","i"," ">>),
       size |-> Node(<<"4","5","0"," ","m","2">>),
       bedrooms |-> Node(<<"4">>),
       bathrooms |-> Node(<<"3">>),
       price_tag |-> Anchor(SITE_ORIGIN \o <<"/","l","i","s","t","i","n","g","s","/","2">>)],
      [location |-> NoNode,
       size |-> NoNode,
       bedrooms |-> Node(<<"1">>),
       bathrooms |-> NoNode,
       price_tag |-> NoAnchor],
      [location |-> Node(<<"T","h","i","k","a">>),
       size |-> Node(<<"9","0"," ","m","2">>),
       bedrooms |-> NoNode,
       bathrooms |-> Node(<<"1">>),
       price_tag |-> AnchorNoHref] }

---------------------------------------------------------------------------
(* The environment: what one network call may answer *)

\* geodesic distances (km) the geocoder's answers may lie at
Distances == {MAX_DISTANCE - 1, MAX_DISTANCE, MAX_DISTANCE + 1}

\* geolocator.geocode: raises, returns None, or returns a point
GeoOutcomes ==
    { [kind |-> "error", dist |-> 0], [kind |-> "nomatch", dist |-> 0] }
    \cup { [kind |-> "ok", dist |-> d] : d \in Distances }

NoGeo == [kind |-> "none", dist |-> 0]

\* a detail page: the request raises, or the page has or lacks the price span
DetailOutcomes ==
    { [kind |-> "error", price |-> NoNode],
      [kind |-> "ok", price |-> NoNode],
      [kind |-> "ok", price |-> Node(<<" ","K","S","h"," ","5"," ">>)] }

\* a listing page as the controller parses it: the request raises, or the
\* markup has or lacks the pagination container and the forward icon
SoupOutcomes ==
    { [kind |-> "error", pagination_div |-> FALSE, forward_icon |-> FALSE] }
    \cup { [kind |-> "ok", pagination_div |-> d, forward_icon |-> i] :
             d \in BOOLEAN, i \in BOOLEAN }

NoSoup == [kind |-> "none", pagination_div |-> FALSE, forward_icon |-> FALSE]

\* a listing page as fetch_properties parses it: the request raises, or the
\* markup carries n cards, of those the site has left
ListingOutcomes(left) ==
    { [kind |-> "error", n |-> 0] }
    \cup { [kind |-> "ok", n |-> n] : n \in 0..left }

\* requests.get: a URL without a scheme raises MissingSchema before any
\* request is sent; otherwise the outcome is the network's
HasScheme(u) == Contains(<<":","/","/">>, u)

requests_get(u, outcome, failure) == IF HasScheme(u) THEN outcome ELSE failure

---------------------------------------------------------------------------
(* The pure functions of main.py *)

\* the query of line 26
GeocodeQuery(location) == location \o KENYA_SUFFIX

\* line 31 with < for <=
is_within_nairobi_area_Strict(location, g) ==
    IF g.kind = "ok" THEN g.dist < MAX_DISTANCE ELSE FALSE

\* line 27 without the test of location_info
is_within_nairobi_area_NoMatchPasses(location, g) ==
    IF g.kind = "ok" THEN g.dist <= MAX_DISTANCE ELSE g.kind = "nomatch"

\* line 31 without the comparison
is_within_nairobi_area_AnyPoint(location, g) == g.kind = "ok"

\* is_within_nairobi_area (lines 14-34); g is the geocoder's answer to
\* GeocodeQuery(location)
is_within_nairobi_area(location, g) ==
    IF g.kind = "ok" THEN g.dist <= MAX_DISTANCE ELSE FALSE

\* line 53 returning the empty string
extract_price_EmptyOnFailure(details_url, d) ==
    LET response == requests_get(details_url, d, [kind |-> "error", price |-> NoNode])
    IN  IF response.kind = "error" THEN <<>>
        ELSE IF response.price.found THEN Strip(response.price.text) ELSE <<>>

\* extract_price (lines 36-53); d is the network's answer for details_url
extract_price(details_url, d) ==
    LET response == requests_get(details_url, d, [kind |-> "error", price |-> NoNode])
    IN  IF response.kind = "error" THEN NONE
        ELSE IF response.price.found THEN Strip(response.price.text) ELSE NONE

\* the dict of lines 65-71, in insertion order
property_types ==
    << << KEY_HOUSES_SALE, << House, Sale >> >>,
       << KEY_FLATS_SALE, << Apartment, Sale >> >>,
       << KEY_HOUSES_RENT, << House, Rent >> >>,
       << KEY_FLATS_RENT, << Apartment, Rent >> >>,
       << KEY_BEDSITTERS_RENT, << Bedsitter, Rent >> >> >>

\* the loop of line 72 keeping the last hit
get_property_type_LastMatch(u) ==
    LET hits == { i \in 1..Len(property_types) : Contains(property_types[i][1], u) }
    IN  IF hits = {} THEN << Unknown, Unknown >>
        ELSE property_types[CHOOSE i \in hits : \A j \in hits : i >= j][2]

\* get_property_type (lines 55-75)
get_property_type(u) ==
    LET hits == { i \in 1..Len(property_types) : Contains(property_types[i][1], u) }
    IN  IF hits = {} THEN << Unknown, Unknown >>
        ELSE property_types[CHOOSE i \in hits : \A j \in hits : i <= j][2]

\* line 88 splitting at the last comma (rsplit)
parse_location_LastComma(text) ==
    IF Contains(<<",">>, text)
    THEN LET i == CHOOSE k \in 1..Len(text) :
                     text[k] = "," /\ \A j \in (k + 1)..Len(text) : text[j] # ","
         IN  << Strip(SubSeq(text, 1, i - 1)), Strip(SubSeq(text, i + 1, Len(text))) >>
    ELSE << Strip(text), <<>> >>

\* parse_location (lines 77-90)
parse_location(text) ==
    IF Contains(<<",">>, text)
    THEN LET i == FirstIndex(",", text)
         IN  << Strip(SubSeq(text, 1, i - 1)), Strip(SubSeq(text, i + 1, Len(text))) >>
    ELSE << Strip(text), <<>> >>

\* line 146 with or for and
has_next_page_Either(s) == s.pagination_div \/ s.forward_icon

\* has_next_page (lines 135-146)
has_next_page(s) == s.pagination_div /\ s.forward_icon

\* line 162 without the test of page > 1
PageUrl_AlwaysParam(base_url, p) == base_url \o PAGE_PARAM \o IntToStr(p)

\* the url of line 162
PageUrl(base_url, p) ==
    IF p > 1 THEN base_url \o PAGE_PARAM \o IntToStr(p) ELSE base_url

\* lines 124-126 with an empty text for an absent node
TextOrNone_Empty(node) == IF node.found THEN Strip(node.text) ELSE <<>>

\* node.text.strip() if node else 'None' (lines 124-126)
TextOrNone(node) == IF node.found THEN Strip(node.text) ELSE NONE

\* line 117
LocationPair(card) ==
    IF card.location.found THEN parse_location(Strip(card.location.text))
    ELSE << NONE, NONE >>

\* line 127, for a card whose anchor, if any, has an href
DetailsUrl(card) ==
    IF card.price_tag.found THEN SITE_ORIGIN \o card.price_tag.href ELSE NONE

\* line 127 raises KeyError: the anchor is there and has no href
DetailsUrlRaises(card) == card.price_tag.found /\ ~card.price_tag.hasHref

---------------------------------------------------------------------------
(* Inputs and initial state *)

URL_LAND == SITE_ORIGIN \o <<"/","l","a","n","d">>

\* a url in which two keys of property_types occur, the later key first
URL_TWO_KEYS == SITE_ORIGIN \o <<"/">> \o KEY_HOUSES_RENT \o <<"/">> \o KEY_HOUSES_SALE

\* the category lists a run is started with
BaseUrlInputs ==
    { << >>,
      << URL_LAND >>,
      << URL_TWO_KEYS >>,
      SubSeq(MAIN_BASE_URLS, 1, 2) }

NoGeoCall == [called |-> FALSE, idx |-> 0, query |-> <<>>, outcome |-> NoGeo,
              verdict |-> FALSE]

NoPriceCall == [called |-> FALSE, idx |-> 0, url |-> <<>>, failed |-> FALSE]

NoPageLog == [requests |-> 0, transport_failures |-> 0, error |-> FALSE, rows |-> 0]

Init ==
    /\ base_urls \in BaseUrlInputs
    /\ file = <<>>
    /\ pc = "start"
    /\ cat = 0
    /\ page = 0
    /\ url = <<>>
    /\ soup = NoSoup
    /\ properties_found = FALSE
    /\ nProps = 0
    /\ idx = 0
    /\ tag = << <<>>, <<>> >>
    /\ prop = NoCard
    /\ location_text = <<>>
    /\ other_location_details = <<>>
    /\ detailed_price = <<>>
    /\ geoCall = NoGeoCall
    /\ priceCall = NoPriceCall
    /\ pageLog = NoPageLog
    /\ rowSrc = <<>>
    /\ lastWrite = << 0, 0, 0 >>
    /\ served = 0

---------------------------------------------------------------------------
(* The sink *)

\* line 170 writing the row twice
writerow_Twice(f, row) == Append(Append(f, row), row)

\* line 170 writing the row in front
writerow_InFront(f, row) == << row >> \o f

\* csv.writer.writerow (lines 157, 170)
writerow(f, row) == Append(f, row)

---------------------------------------------------------------------------
(* scrape_all_properties and the fetch_properties generator it drives *)

ClearCard ==
    /\ prop' = NoCard
    /\ location_text' = <<>>
    /\ other_location_details' = <<>>
    /\ detailed_price' = <<>>

\* the generator is exhausted or has raised into its except clause: control
\* is back at line 174
EndOfPage ==
    /\ pc' = "decide"
    /\ nProps' = 0
    /\ idx' = 0
    /\ tag' = << <<>>, <<>> >>

\* lines 155-160: open the file, write the header, enter the first category
Start ==
    /\ pc = "start"
    /\ file' = writerow(file, HEADER)
    /\ IF Len(base_urls) = 0
       THEN pc' = "done" /\ cat' = 1 /\ page' = 0
       ELSE pc' = "request" /\ cat' = 1 /\ page' = 1
    /\ UNCHANGED << base_urls, url, soup, properties_found, nProps, idx, tag,
                    prop, location_text, other_location_details,
                    detailed_price, geoCall, priceCall, pageLog, rowSrc,
                    lastWrite, served >>

\* lines 162-168: build the url, request and parse the page; the request is
\* outside any try, so a transport failure leaves scrape_all_properties
Request ==
    /\ pc = "request"
    /\ \E o \in SoupOutcomes :
         LET u == PageUrl(base_urls[cat], page)
             response == requests_get(u, o, [kind |-> "error", pagination_div |-> FALSE,
                                              forward_icon |-> FALSE])
         IN  /\ url' = u
             /\ soup' = response
             /\ properties_found' = FALSE
             /\ IF response.kind = "error"
                THEN /\ pc' = "aborted"
                     /\ pageLog' = [NoPageLog EXCEPT !.requests = 1,
                                                     !.transport_failures = 1]
                ELSE /\ pc' = "extract"
                     /\ pageLog' = [NoPageLog EXCEPT !.requests = 1]
    /\ geoCall' = NoGeoCall
    /\ priceCall' = NoPriceCall
    /\ UNCHANGED << base_urls, file, cat, page, nProps, idx, tag, prop,
                    location_text, other_location_details, detailed_price, rowSrc,
                    lastWrite, served >>

\* lines 102-107: the first next() on the generator requests the page again,
\* finds the cards and resolves the category; a failure is caught at line 132
\* and ends the generator
Extract ==
    /\ pc = "extract"
    /\ \E o \in ListingOutcomes(MaxListings - served) :
         LET response == requests_get(url, o, [kind |-> "error", n |-> 0])
         IN  /\ served' = served + response.n
             /\ IF response.kind = "error"
                THEN /\ EndOfPage
                     /\ pageLog' = [pageLog EXCEPT !.requests = @ + 1,
                                                   !.transport_failures = @ + 1,
                                                   !.error = TRUE]
                ELSE /\ pageLog' = [pageLog EXCEPT !.requests = @ + 1]
                     /\ IF response.n = 0
                        THEN EndOfPage
                        ELSE /\ pc' = "card"
                             /\ nProps' = response.n
                             /\ idx' = 1
                             /\ tag' = get_property_type(url)
    /\ UNCHANGED << base_urls, file, cat, page, url, soup, properties_found,
                    prop, location_text, other_location_details,
                    detailed_price, geoCall, priceCall, rowSrc, lastWrite >>

\* lines 109-129 without the continue of line 121: a rejected card goes on
\* to the detail fetch
Card_NoFilter ==
    /\ pc = "card"
    /\ \E c \in Cards, g \in GeoOutcomes :
         LET loc == LocationPair(c)
         IN  /\ geoCall' = [called |-> TRUE, idx |-> idx,
                            query |-> GeocodeQuery(loc[1]), outcome |-> g,
                            verdict |-> is_within_nairobi_area(loc[1], g)]
             /\ pc' = "details"
             /\ prop' = c
             /\ location_text' = loc[1]
             /\ other_location_details' = loc[2]
             /\ UNCHANGED << detailed_price, nProps, idx, tag >>
    /\ priceCall' = NoPriceCall
    /\ UNCHANGED << base_urls, file, cat, page, url, soup, properties_found,
                    pageLog, rowSrc, lastWrite, served >>

\* lines 109-121: take the next card, parse its location and ask the geocoder;
\* a rejected card is skipped
Card ==
    /\ pc = "card"
    /\ \E c \in Cards, g \in GeoOutcomes :
         LET loc == LocationPair(c)
             ok == is_within_nairobi_area(loc[1], g)
         IN  /\ geoCall' = [called |-> TRUE, idx |-> idx,
                            query |-> GeocodeQuery(loc[1]), outcome |-> g,
                            verdict |-> ok]
             /\ IF ok
                THEN /\ pc' = "details"
                     /\ prop' = c
                     /\ location_text' = loc[1]
                     /\ other_location_details' = loc[2]
                     /\ UNCHANGED << detailed_price, nProps, idx, tag >>
                ELSE /\ ClearCard
                     /\ IF idx < nProps
                        THEN /\ idx' = idx + 1
                             /\ UNCHANGED << pc, nProps, tag >>
                        ELSE EndOfPage
    /\ priceCall' = NoPriceCall
    /\ UNCHANGED << base_urls, file, cat, page, url, soup, properties_found,
                    pageLog, rowSrc, lastWrite, served >>

\* lines 124-129: build the detail url and ask extract_price for the price;
\* price_tag['href'] on an anchor without href raises KeyError, caught at
\* line 132, which ends the generator
Details ==
    /\ pc = "details"
    /\ IF DetailsUrlRaises(prop)
       THEN /\ EndOfPage
            /\ ClearCard
            /\ pageLog' = [pageLog EXCEPT !.error = TRUE]
            /\ UNCHANGED priceCall
       ELSE \E d \in DetailOutcomes :
              LET details_url == DetailsUrl(prop)
                  answer == requests_get(details_url, d,
                                         [kind |-> "error", price |-> NoNode])
              IN  /\ detailed_price' = extract_price(details_url, d)
                  /\ priceCall' = [called |-> TRUE, idx |-> idx, url |-> details_url,
                                   failed |-> (answer.kind = "error" \/ ~answer.price.found)]
                  /\ pc' = "yield"
                  /\ UNCHANGED << nProps, idx, tag, prop, location_text,
                                  other_location_details, pageLog >>
    /\ UNCHANGED << base_urls, file, cat, page, url, soup, properties_found,
                    geoCall, rowSrc, lastWrite, served >>

\* the record of line 131
Record ==
    << location_text, other_location_details, TextOrNone(prop.size),
       TextOrNone(prop.bedrooms), TextOrNone(prop.bathrooms), detailed_price,
       tag[1], tag[2] >>

\* lines 131, 170-171, 109: yield the record, the consumer writes it and sets
\* the flag, and the generator resumes at the next card
Yield ==
    /\ pc = "yield"
    /\ file' = writerow(file, Record)
    /\ properties_found' = TRUE
    /\ rowSrc' = Append(rowSrc, [resolved |-> (geoCall.outcome.kind = "ok"),
                                 near |-> (geoCall.outcome.dist <= MAX_DISTANCE)])
    /\ lastWrite' = << cat, page, idx >>
    /\ pageLog' = [pageLog EXCEPT !.rows = @ + 1]
    /\ ClearCard
    /\ IF idx < nProps
       THEN /\ idx' = idx + 1
            /\ pc' = "card"
            /\ UNCHANGED << nProps, tag >>
       ELSE EndOfPage
    /\ UNCHANGED << base_urls, cat, page, url, soup, geoCall, priceCall, served >>

\* lines 168-175 with the flag set for every card found on the page, not
\* for every record yielded
Decide_CardsSeen ==
    /\ pc = "decide"
    /\ IF ~geoCall.called \/ ~has_next_page(soup)
       THEN IF cat < Len(base_urls)
            THEN /\ cat' = cat + 1
                 /\ page' = 1
                 /\ pc' = "request"
            ELSE /\ cat' = cat + 1
                 /\ page' = 0
                 /\ pc' = "done"
       ELSE /\ page' = page + 1
            /\ pc' = "request"
            /\ UNCHANGED cat
    /\ url' = <<>>
    /\ soup' = NoSoup
    /\ properties_found' = FALSE
    /\ geoCall' = NoGeoCall
    /\ priceCall' = NoPriceCall
    /\ pageLog' = NoPageLog
    /\ UNCHANGED << base_urls, file, nProps, idx, tag, prop, location_text,
                    other_location_details, detailed_price, rowSrc, lastWrite,
                    served >>

\* lines 174-177 and 159-160: stop this category or go to its next page
Decide ==
    /\ pc = "decide"
    /\ IF ~properties_found \/ ~has_next_page(soup)
       THEN IF cat < Len(base_urls)
            THEN /\ cat' = cat + 1
                 /\ page' = 1
                 /\ pc' = "request"
            ELSE /\ cat' = cat + 1
                 /\ page' = 0
                 /\ pc' = "done"
       ELSE /\ page' = page + 1
            /\ pc' = "request"
            /\ UNCHANGED cat
    /\ url' = <<>>
    /\ soup' = NoSoup
    /\ properties_found' = FALSE
    /\ geoCall' = NoGeoCall
    /\ priceCall' = NoPriceCall
    /\ pageLog' = NoPageLog
    /\ UNCHANGED << base_urls, file, nProps, idx, tag, prop, location_text,
                    other_location_details, detailed_price, rowSrc, lastWrite,
                    served >>

Next ==
    \/ Start
    \/ Request
    \/ Extract
    \/ Card
    \/ Details
    \/ Yield
    \/ Decide

Spec == Init /\ [][Next]_vars

\* the program is one synchronous thread: it takes its next step whenever it
\* has one (every network call returns)
FairSpec == Init /\ [][Next]_vars /\ WF_vars(Next)

---------------------------------------------------------------------------
(* parse_location on its own: the function applied to any short text *)

LocationAlphabet == { "a", ",", " " }

LocationTexts == UNION { [1..n -> LocationAlphabet] : n \in 0..MaxLocLen }

InitParse ==
    /\ base_urls = << >>
    /\ file = <<>>
    /\ pc = "parse"
    /\ cat = 0
    /\ page = 0
    /\ url = <<>>
    /\ soup = NoSoup
    /\ properties_found = FALSE
    /\ nProps = 0
    /\ idx = 0
    /\ tag = << <<>>, <<>> >>
    /\ \E t \in LocationTexts : prop = [NoCard EXCEPT !.location = Node(t)]
    /\ location_text = <<>>
    /\ other_location_details = <<>>
    /\ detailed_price = <<>>
    /\ geoCall = NoGeoCall
    /\ priceCall = NoPriceCall
    /\ pageLog = NoPageLog
    /\ rowSrc = <<>>
    /\ lastWrite = << 0, 0, 0 >>
    /\ served = 0

\* location, other_details = parse_location(text)
Parse ==
    /\ pc = "parse"
    /\ LET pair == parse_location(prop.location.text)
       IN  /\ location_text' = pair[1]
           /\ other_location_details' = pair[2]
    /\ pc' = "parsed"
    /\ UNCHANGED << base_urls, file, cat, page, url, soup, properties_found,
                    nProps, idx, tag, prop, detailed_price, geoCall, priceCall,
                    pageLog, rowSrc, lastWrite, served >>

SpecParse == InitParse /\ [][Parse]_vars

---------------------------------------------------------------------------
(* Properties *)

\* the card the last geocoder call was made for
GeoCard == << cat, page, geoCall.idx >>

\* the card the last extract_price call was made for
PriceCard == << cat, page, priceCall.idx >>

\* the geocoder resolved the last query to a point within the radius
GeoWithin == geoCall.outcome.kind = "ok" /\ geoCall.outcome.dist <= MAX_DISTANCE

\* position a before position b: category, then page, then card
LexLess(a, b) ==
    \/ a[1] < b[1]
    \/ a[1] = b[1] /\ a[2] < b[2]
    \/ a[1] = b[1] /\ a[2] = b[2] /\ a[3] < b[3]

\* C1: every data row of the output comes from a card whose location the
\* geocoder resolved to a point at distance <= MAX_DISTANCE from the centre,
\* and a card whose location is unresolved or farther away produces no row.
C1_RowsWithinRadius ==
    /\ Len(rowSrc) = (IF file = <<>> THEN 0 ELSE Len(file) - 1)
    /\ \A i \in 1..Len(rowSrc) : rowSrc[i].resolved /\ rowSrc[i].near
    /\ (geoCall.called /\ ~GeoWithin) => lastWrite # GeoCard

C1_Witness ==
    /\ Len(file) >= 2
    /\ geoCall.called
    /\ geoCall.outcome.kind = "ok"
    /\ geoCall.outcome.dist > MAX_DISTANCE
    /\ pageLog.rows > 0

\* C2: a transport failure while a listing page is fetched never aborts the
\* run (the category is exhausted and the run goes on to completion).
C2_TransportFailureSurvived ==
    pageLog.transport_failures > 0 => pc # "aborted"

\* C3: the pagination loop of every category reaches its end and the whole
\* run finishes: the run never stops before every category is exhausted.
C3_RunFinishes == pc = "done" \/ ENABLED Next

\* the loop itself always ends: by exhausting the categories or by the
\* exception of line 165
Terminates == <>(pc \in {"done", "aborted"})

\* C4: a fetch cycle of page n ends the category exactly when no row was
\* extracted from the page or the pagination container or the forward icon
\* is missing; otherwise the next cycle is for page n+1 of the same category.
C4_ExhaustedIff ==
    [][pc = "decide" =>
         IF pageLog.rows = 0 \/ ~soup.pagination_div \/ ~soup.forward_icon
         THEN /\ cat' = cat + 1
              /\ pc' \in {"request", "done"}
              /\ pc' = "request" => page' = 1
         ELSE /\ cat' = cat
              /\ pc' = "request"
              /\ page' = page + 1]_vars

C4_Witness == pc = "request" /\ page = 2 /\ Len(file) >= 2

\* C5: when the geocoder finds no match or raises, the filter answers false,
\* nothing reaches fetch_properties' except clause, the card gets no row and
\* the generator is at the next card of the page (or past the last one).
C5_GeocodeFailureDropsCard ==
    (geoCall.called /\ geoCall.outcome.kind \in {"error", "nomatch"}) =>
        /\ ~geoCall.verdict
        /\ ~pageLog.error
        /\ lastWrite # GeoCard
        /\ pc \in {"card", "decide"}
        /\ pc = "card" => idx = geoCall.idx + 1

C5_Witness ==
    /\ geoCall.called
    /\ geoCall.outcome.kind = "error"
    /\ pc = "card"
    /\ idx = 2

\* C6: for a resolved location the filter answers true exactly when the
\* distance is <= MAX_DISTANCE; a distance equal to it is included.
C6_WithinIffDistance ==
    (geoCall.called /\ geoCall.outcome.kind = "ok") =>
        (geoCall.verdict <=> geoCall.outcome.dist <= MAX_DISTANCE)

C6_Witness ==
    /\ geoCall.called
    /\ geoCall.outcome.kind = "ok"
    /\ geoCall.outcome.dist = MAX_DISTANCE
    /\ geoCall.verdict

\* C7: when the detail request raises or the page has no price node,
\* extract_price answers "None" and nothing reaches the except clause of
\* fetch_properties: the card's row is written with price "None" and the
\* generator goes on with the next card.
C7_DetailFailureGivesNone ==
    (priceCall.called /\ priceCall.failed) =>
        /\ ~pageLog.error
        /\ \/ pc = "yield" /\ detailed_price = NONE
           \/ /\ pc \in {"card", "decide"}
              /\ lastWrite = PriceCard
              /\ file[Len(file)][6] = NONE
              /\ pc = "card" => idx = priceCall.idx + 1

C7_Witness ==
    /\ priceCall.called
    /\ priceCall.failed
    /\ HasScheme(priceCall.url)
    /\ lastWrite = PriceCard
    /\ pc = "card"

\* C8: a page on which fetch_properties failed contributes no row.
C8_FailedPageYieldsNothing == pageLog.error => pageLog.rows = 0

\* C9: for an accepted card without a detail link the price is "None" and
\* extract_price is not called.
C9_NoLinkNoEnricherCall ==
    (pc = "yield" /\ ~prop.price_tag.found) =>
        (detailed_price = NONE /\ ~priceCall.called)

\* C10: the header is the first row and is written once; afterwards every
\* yielded record appends exactly one row, the record itself, at the end of
\* the file, at a position (category, page, card) after that of the row
\* before it; nothing else changes the file.
C10_AppendOnly ==
    /\ [](file # <<>> =>
            /\ file[1] = HEADER
            /\ \A i \in 2..Len(file) : file[i] # HEADER /\ Len(file[i]) = Len(HEADER))
    /\ [][ \/ file' = file /\ pc # "yield"
           \/ file = <<>> /\ pc = "start" /\ file' = << HEADER >>
           \/ /\ pc = "yield"
              /\ file # <<>>
              /\ file' = file \o << Record >>
              /\ LexLess(lastWrite, << cat, page, idx >>)
              /\ lastWrite' = << cat, page, idx >> ]_vars

C10_Witness == Len(file) >= 3 /\ lastWrite[1] = 2 /\ pc = "done"

\* the pair the claim gives a url: that of the first of the five keys, in
\* the order of the table, that occurs in it
ExpectedTag(u) ==
    IF Contains(KEY_HOUSES_SALE, u) THEN << House, Sale >>
    ELSE IF Contains(KEY_FLATS_SALE, u) THEN << Apartment, Sale >>
    ELSE IF Contains(KEY_HOUSES_RENT, u) THEN << House, Rent >>
    ELSE IF Contains(KEY_FLATS_RENT, u) THEN << Apartment, Rent >>
    ELSE IF Contains(KEY_BEDSITTERS_RENT, u) THEN << Bedsitter, Rent >>
    ELSE << Unknown, Unknown >>

\* C11: the resolver gives a page url the pair of the first key that occurs
\* in it, (Unknown, Unknown) when none does, and the row written for a card
\* carries the pair of the url of its page; a page yields as many rows as
\* cards were accepted.
C11_RowsCarryUrlPair ==
    /\ pc \in {"card", "details", "yield"} => tag = ExpectedTag(url)
    /\ pc = "yield" => << Record[7], Record[8] >> = ExpectedTag(url)
    /\ (Len(file) >= 2 /\ lastWrite[1] \in 1..Len(base_urls)) =>
          << file[Len(file)][7], file[Len(file)][8] >>
             = ExpectedTag(PageUrl(base_urls[lastWrite[1]], lastWrite[2]))
    /\ (Len(file) >= 2 /\ base_urls = << URL_LAND >>) =>
          \A i \in 2..Len(file) : file[i][7] = Unknown /\ file[i][8] = Unknown
    /\ (Len(file) >= 2 /\ base_urls = << URL_TWO_KEYS >>) =>
          \A i \in 2..Len(file) : file[i][7] = House /\ file[i][8] = Sale

\* page 1 of houses-for-sale had 3 cards, 2 accepted and the last one
\* resolved outside the radius: 2 rows, both (House, Sale)
C11_Witness ==
    /\ pc = "decide"
    /\ cat = 1
    /\ page = 1
    /\ base_urls[1] = MAIN_BASE_URLS[1]
    /\ served = 3
    /\ ~pageLog.error
    /\ pageLog.rows = 2
    /\ geoCall.outcome.kind = "ok"
    /\ geoCall.outcome.dist > MAX_DISTANCE
    /\ Len(file) = 3
    /\ \A i \in 2..3 : file[i][7] = House /\ file[i][8] = Sale

\* the text "?page=n" for a page number below 10
PageSuffix(n) ==
    << "?", "p", "a", "g", "e", "=" >>
    \o << CASE n = 2 -> "2" [] n = 3 -> "3" [] n = 4 -> "4" [] n = 5 -> "5"
            [] n = 6 -> "6" [] n = 7 -> "7" [] n = 8 -> "8" [] n = 9 -> "9" >>

\* C12: the categories are taken one at a time in list order, each starting
\* at page 1 whatever page the one before ended at; within a category the
\* page counter goes up by one at a time; page 1 is requested at the base
\* url as it is and page n > 1 at the base url followed by "?page=n".
C12_SequentialPaging ==
    [][ /\ cat' \in {cat, cat + 1}
        /\ cat' = cat => page' \in {page, page + 1}
        /\ (cat' # cat /\ pc' = "request") => page' = 1
        /\ (cat' # cat /\ pc # "start") => pc = "decide"
        /\ pc = "request" =>
              /\ cat \in 1..Len(base_urls)
              /\ url' = IF page = 1 THEN base_urls[cat]
                        ELSE base_urls[cat] \o PageSuffix(page) ]_vars

\* the second category is requested at page 1, at its base url, after the
\* first one had gone on to later pages
C12_Witness ==
    /\ pc = "extract"
    /\ cat = 2
    /\ page = 1
    /\ url = MAIN_BASE_URLS[2]
    /\ lastWrite = << 1, 2, 1 >>

\* C13: every data row has the 8 fields of the header, in its order, and a
\* field whose node is absent on the card (location, size, bedrooms,
\* bathrooms, the link behind the price) holds "None"; an accepted card is
\* not skipped because such a node is absent.
C13_EightFieldsWithPlaceholders ==
    /\ [](\A i \in 1..Len(file) : Len(file[i]) = 8)
    /\ [][ /\ pc = "yield" =>
                LET row == file'[Len(file')]
                IN  /\ Len(file') = Len(file) + 1
                    /\ row[1] = IF prop.location.found THEN location_text ELSE NONE
                    /\ row[2] = IF prop.location.found THEN other_location_details
                                ELSE NONE
                    /\ row[3] = IF prop.size.found THEN Strip(prop.size.text) ELSE NONE
                    /\ row[4] = IF prop.bedrooms.found THEN Strip(prop.bedrooms.text)
                                ELSE NONE
                    /\ row[5] = IF prop.bathrooms.found THEN Strip(prop.bathrooms.text)
                                ELSE NONE
                    /\ ~prop.price_tag.found => row[6] = NONE
                    /\ << row[7], row[8] >> = tag
           /\ (pc = "card" /\ geoCall'.verdict) => pc' = "details"
           /\ (pc = "details" /\ ~(prop.price_tag.found /\ ~prop.price_tag.hasHref))
                 => pc' = "yield" ]_vars

\* a row was written for a card without location, size, bathrooms and link
C13_Witness ==
    /\ Len(file) >= 2
    /\ file[Len(file)][1] = NONE
    /\ file[Len(file)][2] = NONE
    /\ file[Len(file)][3] = NONE
    /\ file[Len(file)][4] = << "1" >>
    /\ file[Len(file)][5] = NONE
    /\ file[Len(file)][6] = NONE

\* C14: in one pagination cycle the listing page is requested once, so the
\* next-page test and the extracted records come from the same response.
C14_OneRequestPerCycle == pageLog.requests <= 1

\* C15: for each card the geocoding filter is asked once, before any detail
\* fetch; extract_price is called only for a card the filter accepted; the
\* row is written only after extract_price returned, with its price; the
\* category pair is resolved once per page, not per card.
C15_StepOrder ==
    /\ [](priceCall.called =>
            geoCall.called /\ geoCall.verdict /\ geoCall.idx = priceCall.idx)
    /\ [][ /\ geoCall' # geoCall =>
                \/ geoCall' = NoGeoCall
                \/ pc = "card" /\ geoCall'.called /\ geoCall'.idx = idx
                      /\ ~priceCall'.called
           /\ pc = "card" => geoCall'.called /\ geoCall'.idx = idx
           /\ (pc = "card" /\ pc' = "card") => idx' = idx + 1
           /\ (pc = "yield" /\ pc' = "card") => idx' = idx + 1
           /\ (priceCall' # priceCall /\ priceCall'.called) =>
                 pc = "details" /\ geoCall.verdict /\ geoCall.idx = idx
           /\ (file # <<>> /\ file' # file) =>
                 /\ pc = "yield"
                 /\ priceCall.called
                 /\ priceCall.idx = idx
                 /\ file'[Len(file')][6] = detailed_price
           /\ tag' # tag => (pc = "extract" \/ tag' = << <<>>, <<>> >>)
           /\ (pc \in {"card", "details", "yield"}
                  /\ pc' \in {"card", "details", "yield"}) => tag' = tag ]_vars

\* the second card of a page, accepted after the first was rejected, has had
\* its price fetched and is about to be written
C15_Witness ==
    /\ pc = "yield"
    /\ idx = 2
    /\ pageLog.rows = 0
    /\ geoCall.idx = 2
    /\ geoCall.verdict
    /\ priceCall.called
    /\ priceCall.idx = 2

\* the filter stands between every card and its record
FilterNeverBypassed ==
    pc \in {"details", "yield"} =>
        geoCall.called /\ geoCall.idx = idx /\ geoCall.verdict

\* C16: no record is produced without the filter having accepted the card,
\* and the geocoder is never asked to resolve the placeholder "None" of a
\* card without location text.
C16_PlaceholderNotGeocoded ==
    /\ FilterNeverBypassed
    /\ geoCall.called => geoCall.query # << "N", "o", "n", "e", ",", " ", "K", "e", "n", "y", "a" >>

\* C17: a page that has cards and the next-page indicator, but none of whose
\* cards survives the filter, ends the category: its next page is not
\* requested, and the category is never returned to.
C17_EmptinessAfterFilter ==
    [][ /\ cat' >= cat
        /\ (/\ pc = "decide"
            /\ geoCall.called
            /\ pageLog.rows = 0
            /\ soup.pagination_div
            /\ soup.forward_icon) =>
               /\ cat' = cat + 1
               /\ pc' = "request" => page' = 1 ]_vars

\* page 1 of the first category had two cards and the indicator, and the
\* filter rejected both
C17_Witness ==
    /\ pc = "decide"
    /\ cat = 1
    /\ page = 1
    /\ served = 2
    /\ geoCall.idx = 2
    /\ ~geoCall.verdict
    /\ pageLog.rows = 0
    /\ ~pageLog.error
    /\ soup.pagination_div
    /\ soup.forward_icon

\* r is s without its leading and trailing blanks
IsTrimOf(r, s) ==
    \E a \in 1..(Len(s) + 1), b \in 0..Len(s) :
        /\ r = SubSeq(s, a, b)
        /\ \A k \in 1..(a - 1) : s[k] = " "
        /\ \A k \in (b + 1)..Len(s) : s[k] = " "
        /\ r = <<>> \/ (r[1] # " " /\ r[Len(r)] # " ")

\* C18: the location text is split at its first comma only: location is the
\* trimmed text before it, otherLocationDetails the trimmed rest, commas
\* included; without a comma otherLocationDetails is empty and location is
\* the trimmed text.
C18_SplitOnFirstComma ==
    pc = "parsed" =>
        LET t == prop.location.text
            commas == { i \in 1..Len(t) : t[i] = "," }
        IN  IF commas = {}
            THEN /\ other_location_details = <<>>
                 /\ IsTrimOf(location_text, t)
            ELSE \E i \in commas :
                    /\ \A j \in commas : i <= j
                    /\ IsTrimOf(location_text, SubSeq(t, 1, i - 1))
                    /\ IsTrimOf(other_location_details, SubSeq(t, i + 1, Len(t)))

\* a text with two commas was parsed: the second one stays in the details
C18_Witness ==
    /\ pc = "parsed"
    /\ prop.location.text = << " ", "a", ",", "," >>
    /\ location_text = << "a" >>
    /\ other_location_details = << "," >>

\* the link already names its scheme and host
IsAbsolute(href) ==
    \/ SubSeq(href, 1, 7) = << "h", "t", "t", "p", ":", "/", "/" >>
    \/ SubSeq(href, 1, 8) = << "h", "t", "t", "p", "s", ":", "/", "/" >>

\* a relative link is fetched at the site's origin followed by the link
RelativeLinkPrefixed ==
    (pc = "yield" /\ prop.price_tag.found /\ ~IsAbsolute(prop.price_tag.href)) =>
        priceCall.url = SITE_ORIGIN \o prop.price_tag.href

\* C19: the url given to extract_price for an accepted card with a link is
\* the origin followed by the link when the link is relative, and the link
\* itself when it is absolute.
C19_DetailUrlResolved ==
    (pc = "yield" /\ prop.price_tag.found) =>
        priceCall.url = IF IsAbsolute(prop.price_tag.href)
                        THEN prop.price_tag.href
                        ELSE SITE_ORIGIN \o prop.price_tag.href

====
